---- MODULE Spec2Model ----
(***************************************************************************)
(* Crawl-and-ingest pipeline of abitura-ai-bot.                            *)
(*                                                                         *)
(*   selenium_recursive_loader.py  SeleniumRecursiveLoader (recursive,     *)
(*                                 depth-bounded, deduplicating crawler),  *)
(*                                 default_page_ready_check                *)
(*   document_processor.py         DocumentStorage (cache artifact),       *)
(*                                 DocumentFetcher, DocumentProcessor      *)
(*                                 (fetch_and_process_documents and the    *)
(*                                 retrying ingestion loop)                *)
(*   database_handler.py           SQLiteHandler (the bot's feedback       *)
(*                                 store), under FeedbackSpec              *)
(*                                                                         *)
(* Strings are sequences of tokens.  The token alphabet is prefix-free (no *)
(* token is a prefix of another one), so a token sequence is a prefix of   *)
(* another exactly when the Python string it spells is a prefix of the     *)
(* other string: str.startswith, str.rstrip("/") and urljoin are computed  *)
(* on the tokens as Python computes them on the characters.                *)
(***************************************************************************)
EXTENDS Integers, Sequences, FiniteSets, TLC

VARIABLES
    cfg,            \* the run's inputs: constructor arguments and the site
    pc,             \* position of the main program (document_processor.py:140-142)
    exc,            \* the exception that ended the program, or "none"
    cache,          \* the file at DocumentStorage.json_filepath
    cache0,         \* that file as it was when the program started
    cacheWrites,    \* number of save_documents() calls
    fetchRet,       \* value returned by fetch_and_process_documents()
    base_url,       \* SeleniumRecursiveLoader._base_url
    exclude_urls,   \* SeleniumRecursiveLoader._exclude_urls
    visited_urls,   \* SeleniumRecursiveLoader._visited_urls
    driver,         \* SeleniumRecursiveLoader._driver: "None", "open" or "quit"
    initCount,      \* number of browser sessions created (_init_driver)
    quitCount,      \* number of driver.quit() calls
    seedIdx,        \* position of load()'s for-loop over self._urls
    documents,      \* load()'s local list `documents`
    loadRet,        \* value returned by load()
    stack,          \* activation records of _load_url_recursive, innermost last
    polls,          \* failed polls of the WebDriverWait in progress
    lastCheck,      \* last evaluation of the readiness predicate
    navLog,         \* every driver.get(url) issued, in order
    callLog,        \* (url, depth, seed) of every _load_url_recursive call
    chunks,         \* the list handed to process_documents_to_vectorstore
    max_retries,    \* its max_retries argument
    chunkIdx,       \* position of the outer for-loop
    attempt,        \* position of the inner for-loop
    ingestLog,      \* <<chunk, event>> for every embed/upsert call, sleep and report
    reload,         \* the second load() call on the same loader instance, if any
    feedback,       \* table feedback (database_handler.py:33-40), row id = position
    user_feedback,  \* table user_feedback (database_handler.py:45-51)
    latest,         \* per (message_id, user_id): the vote of the latest recorded call
    lastCall        \* the last update_feedback call and the tables before it

vars == <<cfg, pc, exc, cache, cache0, cacheWrites, fetchRet, base_url, exclude_urls,
          visited_urls, driver, initCount, quitCount, seedIdx, documents,
          loadRet, stack, polls, lastCheck, navLog, callLog, chunks,
          max_retries, chunkIdx, attempt, ingestLog, reload, feedback,
          user_feedback, latest, lastCall>>

loaderVars == <<base_url, exclude_urls, visited_urls, driver, initCount,
                quitCount, seedIdx, documents, loadRet, stack, polls,
                lastCheck, navLog, callLog, reload>>

ingestVars == <<chunks, max_retries, chunkIdx, attempt, ingestLog>>

feedbackVars == <<feedback, user_feedback, latest, lastCall>>

(***************************************************************************)
(* Bounds of the model.                                                    *)
(***************************************************************************)
\* polls a WebDriverWait makes before its 10 s timeout elapses
MaxPolls == 2
\* longest chunk list handed to the ingestion loop
MaxChunks == 3
\* largest max_retries argument
MaxRetriesArg == 2
\* rows store_response() inserts into table feedback
MaxResponses == 2

(***************************************************************************)
(* Python string primitives on token sequences.                            *)
(***************************************************************************)
Slash == "/"

\* str.startswith
StartsWith(s, p) ==
    /\ Len(p) <= Len(s)
    /\ SubSeq(s, 1, Len(p)) = p

RECURSIVE RStrip(_)
\* str.rstrip("/"): every trailing "/" is removed
RStrip(s) ==
    IF s # <<>> /\ s[Len(s)] = Slash
    THEN RStrip(SubSeq(s, 1, Len(s) - 1))
    ELSE s

\* urllib.parse.urljoin(base, url) for the urls _normalize_url hands to it:
\* those that start with "/".  "//host/path" is a network-path reference and
\* takes only the scheme of base ("//" alone has no host and yields base);
\* "/path" replaces the path of base and keeps scheme://host.
Scheme(u) == SubSeq(u, 1, 1)
SchemeHost(u) == SubSeq(u, 1, 4)

UrlJoin(base, url) ==
    IF Len(url) >= 2 /\ url[2] = Slash
    THEN IF Len(url) = 2 THEN base ELSE Scheme(base) \o url
    ELSE SchemeHost(base) \o url

(***************************************************************************)
(* URL policy of the loader.                                               *)
(***************************************************************************)
\* _normalize_url; "" is the empty sequence
normalize_url(base, url) ==
    IF StartsWith(url, <<Slash>>) THEN UrlJoin(base, url)
    ELSE IF StartsWith(url, base) THEN RStrip(url)
    ELSE <<>>

\* Variant: the visited set is not consulted.
Pruned_NoVisitedCheck(url, depth, maxDepth, base, excludes, visited) ==
    \/ depth > maxDepth
    \/ ~StartsWith(url, base)
    \/ \E i \in 1..Len(excludes) : StartsWith(url, excludes[i])

\* Variant: the depth test is off by one (>= for >).
Pruned_DepthOffByOne(url, depth, maxDepth, base, excludes, visited) ==
    \/ depth >= maxDepth
    \/ ~StartsWith(url, base)
    \/ \E i \in 1..Len(excludes) : StartsWith(url, excludes[i])
    \/ url \in visited

\* Variant: the exclusion list is not consulted.
Pruned_NoExcludeList(url, depth, maxDepth, base, excludes, visited) ==
    \/ depth > maxDepth
    \/ ~StartsWith(url, base)
    \/ url \in visited

\* the pruning condition of _load_url_recursive
Pruned(url, depth, maxDepth, base, excludes, visited) ==
    \/ depth > maxDepth
    \/ ~StartsWith(url, base)
    \/ \E i \in 1..Len(excludes) : StartsWith(url, excludes[i])
    \/ url \in visited

\* default_page_ready_check.  find_element raises NoSuchElementException when
\* the loading indicator is absent, which the except clause turns into False;
\* otherwise loading_text is an element and ddos_guard_text is a bool, and a
\* bool is never None.
default_page_ready_check(loadingPresent, ddosPresent) ==
    IF ~loadingPresent THEN FALSE
    ELSE LET loading_text_is_not_None == TRUE
             ddos_guard_text_is_not_None == ddosPresent \in BOOLEAN
         IN  loading_text_is_not_None \/ ddos_guard_text_is_not_None

\* self._page_ready_check: the argument, or lambda d: True when it is None
page_ready_check(kind, loadingPresent, ddosPresent) ==
    IF kind = "None" THEN TRUE
    ELSE default_page_ready_check(loadingPresent, ddosPresent)

(***************************************************************************)
(* Inputs: sites and loader configurations.                                *)
(*                                                                         *)
(* A site maps the URL the browser navigates to onto the page it renders:  *)
(* the text page_extractor yields and the href attributes of its <a>       *)
(* elements in document order.  Any other URL renders an empty page.       *)
(***************************************************************************)
Root == <<"https:", "/", "/", "example.com">>

Url(path) == Root \o path

Page(text, hrefs) == [text |-> text, hrefs |-> hrefs]

NotFound == Page("404", <<>>)

Render(site, url) == IF url \in DOMAIN site THEN site[url] ELSE NotFound

\* x -> y, y -> x and y -> y: a cycle and a self-link
CycleSite ==
    (Url(<<"/", "x">>) :> Page("X", << <<"/", "y">> >>)) @@
    (Url(<<"/", "y">>) :> Page("Y", << <<"/", "x">>, <<"/", "y">> >>))

\* p0 -> p1 -> p2 -> p3 -> p4: a linear chain of 5 pages
ChainSite ==
    (Url(<<"/", "p0">>) :> Page("P0", << <<"/", "p1">> >>)) @@
    (Url(<<"/", "p1">>) :> Page("P1", << <<"/", "p2">> >>)) @@
    (Url(<<"/", "p2">>) :> Page("P2", << <<"/", "p3">> >>)) @@
    (Url(<<"/", "p3">>) :> Page("P3", << <<"/", "p4">> >>)) @@
    (Url(<<"/", "p4">>) :> Page("P4", <<>>))

\* x -> z, y -> z, z -> y: z is reachable from both seeds x and y
SharedSite ==
    (Url(<<"/", "x">>) :> Page("X", << <<"/", "z">> >>)) @@
    (Url(<<"/", "y">>) :> Page("Y", << <<"/", "z">> >>)) @@
    (Url(<<"/", "z">>) :> Page("Z", << <<"/", "y">> >>))

\* the home page links into the excluded area, to a guide, and off site
ScopeSite ==
    (Root :> Page("HOME", << <<"/", "admin", "/", "users">>,
                             <<"/", "guide">>,
                             <<"https:", "/", "/", "other.org", "/", "x">>,
                             <<"/", "/", "other.org", "/", "x">> >>)) @@
    (Url(<<"/", "guide">>) :> Page("GUIDE", << Root \o <<"/", "admin">> >>)) @@
    (Url(<<"/", "admin">>) :> Page("ADMIN", <<>>)) @@
    (Url(<<"/", "admin", "/", "users">>) :> Page("USERS", <<>>))

\* the same two pages served with and without a trailing slash
HomePage == Page("HOME", << Root \o <<"/">>, <<"/", "x", "/">>, <<"/", "x">> >>)
XPage == Page("X", <<>>)

SlashSite ==
    (Root :> HomePage) @@
    (Url(<<"/">>) :> HomePage) @@
    (Url(<<"/", "x">>) :> XPage) @@
    (Url(<<"/", "x", "/">>) :> XPage)

\* x -> y, x -> z, y -> z, z -> w: z is one hop from x, and two hops through y
DiamondSite ==
    (Url(<<"/", "x">>) :> Page("X", << <<"/", "y">>, <<"/", "z">> >>)) @@
    (Url(<<"/", "y">>) :> Page("Y", << <<"/", "z">> >>)) @@
    (Url(<<"/", "z">>) :> Page("Z", << <<"/", "w">> >>)) @@
    (Url(<<"/", "w">>) :> Page("W", <<>>))

Config(urls, base, excludes, maxDepth, check, site) ==
    [urls |-> urls, base_url |-> base, exclude_urls |-> excludes,
     max_depth |-> maxDepth, page_ready_check |-> check, site |-> site]

CycleConfigs ==
    { Config(<< Url(<<"/", "x">>) >>, Root, <<>>, d, "default", CycleSite) :
        d \in {0, 1, 5} }

ChainConfigs ==
    { Config(<< Url(<<"/", "p0">>) >>, Root, <<>>, d, "default", ChainSite) :
        d \in {0, 1, 2, 5} }

SharedConfigs ==
    { Config(<< Url(<<"/", "x">>), Url(<<"/", "y">>) >>, Root, <<>>, d,
             "default", SharedSite) : d \in {0, 1, 2} }

ScopeConfigs ==
    { Config(<< Root >>, Root \o <<"/">>, << Url(<<"/", "admin", "/">>) >>, 2,
             "default", ScopeSite) }

\* the seed of document_processor.py:116-118: the base URL with a trailing slash
SlashConfigs ==
    { Config(<< Url(<<"/">>) >>, Root, <<>>, d, "default", SlashSite) :
        d \in {1, 2} }

\* page_ready_check left at its default None
NoCheckConfigs ==
    { Config(<< Url(<<"/", "x">>) >>, Root, <<>>, 1, "None", CycleSite) }

DiamondConfigs ==
    { Config(<< Url(<<"/", "x">>) >>, Root, <<>>, 2, "default", DiamondSite) }

Configs ==
    CycleConfigs \cup ChainConfigs \cup SharedConfigs \cup ScopeConfigs
        \cup SlashConfigs \cup NoCheckConfigs \cup DiamondConfigs

(***************************************************************************)
(* Documents and the cache artifact.                                       *)
(***************************************************************************)
\* Document(page_content=content, metadata={"source": url})
Document(content, url) ==
    [page_content |-> content, metadata |-> [source |-> url]]

\* json.dump([doc.dict() for doc in documents]): Document.dict() carries the
\* fields of the model, "type" included
DocDict(doc) ==
    [page_content |-> doc.page_content, metadata |-> doc.metadata,
     type |-> "Document"]

Dump(docs) == [i \in 1..Len(docs) |-> DocDict(docs[i])]

\* Variant: the content is read from the wrong key.
Parse_ContentFromType(dicts) ==
    [i \in 1..Len(dicts) |->
        [page_content |-> dicts[i].type, metadata |-> dicts[i].metadata]]

\* load_documents: a Document is rebuilt from "page_content" and "metadata"
Parse(dicts) ==
    [i \in 1..Len(dicts) |->
        [page_content |-> dicts[i].page_content, metadata |-> dicts[i].metadata]]

NoFile == [kind |-> "absent"]
CorruptFile == [kind |-> "corrupt"]
JsonFile(dicts) == [kind |-> "json", dicts |-> dicts]

\* cache artifacts left by an earlier run
OldDocs == << Document("OLD", Url(<<"/", "x">>)) >>

\* the Document lists an earlier run may have saved
OldDocLists ==
    { <<>>, OldDocs, OldDocs \o << Document("OLD2", Url(<<"/", "y">>)) >> }

InitialCaches ==
    { NoFile, CorruptFile } \cup { JsonFile(Dump(docs)) : docs \in OldDocLists }

(***************************************************************************)
(* Initial state: the program is about to call                             *)
(* fetch_and_process_documents() (document_processor.py:140).              *)
(***************************************************************************)
\* arguments of the feedback store's calls
MessageIds == {1, 2}
UserIds == {1, 2}
\* the buttons send "like" and "dislike"; update_feedback takes any string
Feedbacks == {"like", "dislike", "meh"}

NoValue == [returned |-> FALSE]
Value(v) == [returned |-> TRUE, value |-> v]

NoCheck == [made |-> FALSE]

NoReload == [started |-> FALSE]

NoCall == [made |-> FALSE]

Init ==
    /\ cfg \in Configs
    /\ cache \in InitialCaches
    /\ cache0 = cache
    /\ pc = "main"
    /\ exc = "none"
    /\ cacheWrites = 0
    /\ fetchRet = NoValue
    /\ base_url = <<>>
    /\ exclude_urls = <<>>
    /\ visited_urls = {}
    /\ driver = "None"
    /\ initCount = 0
    /\ quitCount = 0
    /\ seedIdx = 0
    /\ documents = <<>>
    /\ loadRet = NoValue
    /\ stack = <<>>
    /\ polls = 0
    /\ lastCheck = NoCheck
    /\ navLog = <<>>
    /\ callLog = {}
    /\ chunks = <<>>
    /\ max_retries = 0
    /\ chunkIdx = 0
    /\ attempt = 0
    /\ ingestLog = <<>>
    /\ reload = NoReload
    /\ feedback = <<>>
    /\ user_feedback = {}
    /\ latest = [k \in MessageIds \X UserIds |-> "none"]
    /\ lastCall = NoCall

\* an exception nobody catches unwinds every frame and ends the program
Raise(e) ==
    /\ pc' = "raised"
    /\ exc' = e
    /\ stack' = <<>>

(***************************************************************************)
(* DocumentProcessor.fetch_and_process_documents                           *)
(***************************************************************************)
\* Variant: the artifact is never found.
documents_exist_Never == FALSE

\* documents_exist(): os.path.exists
documents_exist == cache.kind # "absent"

\* the cache artifact exists and parses: load_documents() is returned
FetchFromCache ==
    /\ pc = "main"
    /\ documents_exist
    /\ cache.kind = "json"
    /\ fetchRet' = Value(Parse(cache.dicts))
    /\ pc' = "split"
    /\ UNCHANGED <<cfg, exc, cache, cache0, cacheWrites>>
    /\ UNCHANGED feedbackVars
    /\ UNCHANGED loaderVars
    /\ UNCHANGED ingestVars

\* Variant: a file that does not parse is taken for an empty corpus.
FetchFromCorruptCache_EmptyCorpus ==
    /\ pc = "main"
    /\ cache.kind = "corrupt"
    /\ fetchRet' = [returned |-> TRUE, value |-> <<>>]
    /\ pc' = "split"
    /\ UNCHANGED <<cfg, exc, cache, cache0, cacheWrites>>
    /\ UNCHANGED feedbackVars
    /\ UNCHANGED loaderVars
    /\ UNCHANGED ingestVars

\* the cache artifact exists and json.load fails
FetchFromCorruptCache ==
    /\ pc = "main"
    /\ documents_exist
    /\ cache.kind = "corrupt"
    /\ Raise("JSONDecodeError")
    /\ UNCHANGED <<cfg, reload, cache, cache0, cacheWrites, fetchRet, base_url, exclude_urls,
                   visited_urls, driver, initCount, quitCount, seedIdx,
                   documents, loadRet, polls, lastCheck, navLog, callLog>>
    /\ UNCHANGED feedbackVars
    /\ UNCHANGED ingestVars

\* no cache artifact: fetch_documents() constructs the loader
\* (SeleniumRecursiveLoader.__init__)
FetchDocuments ==
    /\ pc = "main"
    /\ ~documents_exist
    /\ base_url' = RStrip(cfg.base_url)
    /\ exclude_urls' = [i \in 1..Len(cfg.exclude_urls) |-> RStrip(cfg.exclude_urls[i])]
    /\ driver' = "None"
    /\ visited_urls' = {}
    /\ pc' = "load"
    /\ UNCHANGED <<cfg, reload, exc, cache, cache0, cacheWrites, fetchRet, initCount, quitCount,
                   seedIdx, documents, loadRet, stack, polls, lastCheck, navLog,
                   callLog>>
    /\ UNCHANGED feedbackVars
    /\ UNCHANGED ingestVars

\* load() returned: the documents are saved and returned
SaveDocuments ==
    /\ pc = "save"
    /\ cache' = JsonFile(Dump(loadRet.value))
    /\ cacheWrites' = cacheWrites + 1
    /\ fetchRet' = Value(loadRet.value)
    /\ pc' = "split"
    /\ UNCHANGED <<cfg, exc, cache0>>
    /\ UNCHANGED feedbackVars
    /\ UNCHANGED loaderVars
    /\ UNCHANGED ingestVars

(***************************************************************************)
(* SeleniumRecursiveLoader.load                                            *)
(***************************************************************************)
Frame(url, depth) ==
    [url |-> url, depth |-> depth, pc |-> "wait1", documents |-> <<>>, links |-> {}]

\* self._driver = self._init_driver(); documents = []
LoadStart ==
    /\ pc = "load"
    /\ driver' = "open"
    /\ initCount' = initCount + 1
    /\ documents' = <<>>
    /\ seedIdx' = 1
    /\ pc' = "crawl"
    /\ UNCHANGED <<cfg, reload, exc, cache, cache0, cacheWrites, fetchRet, base_url, exclude_urls,
                   visited_urls, quitCount, loadRet, stack, polls, lastCheck,
                   navLog, callLog>>
    /\ UNCHANGED feedbackVars
    /\ UNCHANGED ingestVars

\* webdriver.Chrome(...) fails to start a session
InitDriverFails ==
    /\ pc = "load"
    /\ Raise("WebDriverException")
    /\ UNCHANGED <<cfg, reload, cache, cache0, cacheWrites, fetchRet, base_url, exclude_urls,
                   visited_urls, driver, initCount, quitCount, seedIdx,
                   documents, loadRet, polls, lastCheck, navLog, callLog>>
    /\ UNCHANGED feedbackVars
    /\ UNCHANGED ingestVars

\* for url in self._urls: the call self._load_url_recursive(url)
NextSeed ==
    /\ pc = "crawl"
    /\ stack = <<>>
    /\ seedIdx <= Len(cfg.urls)
    /\ stack' = << Frame(cfg.urls[seedIdx], 0) >>
    /\ polls' = 0
    /\ UNCHANGED <<cfg, reload, pc, exc, cache, cache0, cacheWrites, fetchRet, base_url,
                   exclude_urls, visited_urls, driver, initCount, quitCount,
                   seedIdx, documents, loadRet, lastCheck, navLog, callLog>>
    /\ UNCHANGED feedbackVars
    /\ UNCHANGED ingestVars

\* self.close(); return documents.  The first call returns to
\* fetch_documents() (document_processor.py:61), a second one to its caller.
LoadReturn ==
    /\ pc = "crawl"
    /\ stack = <<>>
    /\ seedIdx > Len(cfg.urls)
    /\ driver' = "quit"
    /\ quitCount' = quitCount + 1
    /\ IF reload.started
       THEN /\ reload' = [reload EXCEPT !.ret = Value(documents)]
            /\ pc' = "reloaded"
            /\ UNCHANGED loadRet
       ELSE /\ loadRet' = Value(documents)
            /\ pc' = "save"
            /\ UNCHANGED reload
    /\ UNCHANGED <<cfg, exc, cache, cache0, cacheWrites, fetchRet, base_url, exclude_urls,
                   visited_urls, initCount, seedIdx, documents, stack, polls,
                   lastCheck, navLog, callLog>>
    /\ UNCHANGED feedbackVars
    /\ UNCHANGED ingestVars

\* load() is called once more on the same instance, in place of the save:
\* nothing but load() itself runs between the two calls
LoadAgain ==
    /\ pc = "save"
    /\ ~reload.started
    /\ reload' = [started |-> TRUE, navs |-> Len(navLog), ret |-> NoValue]
    /\ pc' = "load"
    /\ UNCHANGED <<cfg, exc, cache, cache0, cacheWrites, fetchRet, base_url, exclude_urls,
                   visited_urls, driver, initCount, quitCount, seedIdx,
                   documents, loadRet, stack, polls, lastCheck, navLog, callLog>>
    /\ UNCHANGED ingestVars
    /\ UNCHANGED feedbackVars

(***************************************************************************)
(* SeleniumRecursiveLoader._load_url_recursive                             *)
(***************************************************************************)
Top == stack[Len(stack)]

InCall(at) == pc = "crawl" /\ stack # <<>> /\ Top.pc = at

Waiting == InCall("wait1") \/ InCall("wait2")

AfterWait(at) == IF at = "wait1" THEN "check" ELSE "extract"

Checked(loadingPresent, ddosPresent) ==
    [made |-> TRUE, kind |-> cfg.page_ready_check,
     loading |-> loadingPresent, ddos |-> ddosPresent,
     result |-> page_ready_check(cfg.page_ready_check, loadingPresent, ddosPresent)]

\* WebDriverWait(...).until(lambda d: not self._page_ready_check(d)): a poll
\* that finds the predicate false ends the wait
PollReady ==
    /\ Waiting
    /\ polls < MaxPolls
    /\ \E loadingPresent \in BOOLEAN, ddosPresent \in BOOLEAN :
        /\ ~page_ready_check(cfg.page_ready_check, loadingPresent, ddosPresent)
        /\ lastCheck' = Checked(loadingPresent, ddosPresent)
    /\ stack' = [stack EXCEPT ![Len(stack)].pc = AfterWait(@)]
    /\ polls' = 0
    /\ UNCHANGED <<cfg, reload, pc, exc, cache, cache0, cacheWrites, fetchRet, base_url,
                   exclude_urls, visited_urls, driver, initCount, quitCount,
                   seedIdx, documents, loadRet, navLog, callLog>>
    /\ UNCHANGED feedbackVars
    /\ UNCHANGED ingestVars

\* a poll that finds the predicate true: the wait goes on
PollBlocked ==
    /\ Waiting
    /\ polls < MaxPolls
    /\ \E loadingPresent \in BOOLEAN, ddosPresent \in BOOLEAN :
        /\ page_ready_check(cfg.page_ready_check, loadingPresent, ddosPresent)
        /\ lastCheck' = Checked(loadingPresent, ddosPresent)
    /\ polls' = polls + 1
    /\ UNCHANGED <<cfg, reload, pc, exc, cache, cache0, cacheWrites, fetchRet, base_url,
                   exclude_urls, visited_urls, driver, initCount, quitCount,
                   seedIdx, documents, loadRet, stack, navLog, callLog>>
    /\ UNCHANGED feedbackVars
    /\ UNCHANGED ingestVars

\* Variant: the timeout is swallowed and the crawl goes on with the page as it is.
WaitTimeout_Swallowed ==
    /\ pc = "crawl" /\ stack # <<>> /\ stack[Len(stack)].pc \in {"wait1", "wait2"}
    /\ polls = MaxPolls
    /\ stack' = [stack EXCEPT ![Len(stack)].pc = IF @ = "wait1" THEN "check" ELSE "extract"]
    /\ polls' = 0
    /\ UNCHANGED <<cfg, reload, pc, exc, cache, cache0, cacheWrites, fetchRet, base_url,
                   exclude_urls, visited_urls, driver, initCount, quitCount,
                   seedIdx, documents, loadRet, lastCheck, navLog, callLog>>
    /\ UNCHANGED feedbackVars
    /\ UNCHANGED ingestVars

\* Variant: what load() has collected so far is saved before the timeout is raised.
WaitTimeout_SavesPartial ==
    /\ pc = "crawl" /\ stack # <<>> /\ stack[Len(stack)].pc \in {"wait1", "wait2"}
    /\ polls = MaxPolls
    /\ cache' = JsonFile(Dump(documents))
    /\ cacheWrites' = cacheWrites + 1
    /\ Raise("TimeoutException")
    /\ UNCHANGED <<cfg, reload, cache0, fetchRet, base_url, exclude_urls,
                   visited_urls, driver, initCount, quitCount, seedIdx,
                   documents, loadRet, polls, lastCheck, navLog, callLog>>
    /\ UNCHANGED feedbackVars
    /\ UNCHANGED ingestVars

\* the 10 s are over: until() raises TimeoutException, which nothing catches
WaitTimeout ==
    /\ Waiting
    /\ polls = MaxPolls
    /\ Raise("TimeoutException")
    /\ UNCHANGED <<cfg, reload, cache, cache0, cacheWrites, fetchRet, base_url, exclude_urls,
                   visited_urls, driver, initCount, quitCount, seedIdx,
                   documents, loadRet, polls, lastCheck, navLog, callLog>>
    /\ UNCHANGED feedbackVars
    /\ UNCHANGED ingestVars

\* Variant: the caller puts the returned Documents in front of its own.
Return_Prepend(docs) ==
    IF Len(stack) = 1
    THEN /\ stack' = <<>>
         /\ documents' = docs \o documents
         /\ seedIdx' = seedIdx + 1
    ELSE /\ stack' = [SubSeq(stack, 1, Len(stack) - 1)
                        EXCEPT ![Len(stack) - 1].documents = docs \o @]
         /\ UNCHANGED <<documents, seedIdx>>

\* `return docs` of the innermost call: the caller extends its list with docs
Return(docs) ==
    IF Len(stack) = 1
    THEN /\ stack' = <<>>
         /\ documents' = documents \o docs
         /\ seedIdx' = seedIdx + 1
    ELSE /\ stack' = [SubSeq(stack, 1, Len(stack) - 1)
                        EXCEPT ![Len(stack) - 1].documents = @ \o docs]
         /\ UNCHANGED <<documents, seedIdx>>

CallOf(url, depth, seed) == [url |-> url, depth |-> depth, seed |-> seed]

Call(url, depth) == CallOf(url, depth, seedIdx)

TopPruned ==
    Pruned(Top.url, Top.depth, cfg.max_depth, base_url, exclude_urls, visited_urls)

\* the if of lines 100-106 holds: return []
Prune ==
    /\ InCall("check")
    /\ TopPruned
    /\ callLog' = callLog \cup {Call(Top.url, Top.depth)}
    /\ Return(<<>>)
    /\ UNCHANGED <<cfg, reload, pc, exc, cache, cache0, cacheWrites, fetchRet, base_url,
                   exclude_urls, visited_urls, driver, initCount, quitCount,
                   loadRet, polls, lastCheck, navLog>>
    /\ UNCHANGED feedbackVars
    /\ UNCHANGED ingestVars

\* Variant: the URL is not marked visited.
Visit_NoMark ==
    /\ InCall("check")
    /\ ~TopPruned
    /\ callLog' = callLog \cup {Call(Top.url, Top.depth)}
    /\ stack' = [stack EXCEPT ![Len(stack)].pc = "get"]
    /\ UNCHANGED <<cfg, reload, pc, exc, cache, cache0, cacheWrites, fetchRet, base_url,
                   exclude_urls, visited_urls, driver, initCount, quitCount, seedIdx,
                   documents, loadRet, polls, lastCheck, navLog>>
    /\ UNCHANGED feedbackVars
    /\ UNCHANGED ingestVars

\* self._visited_urls.add(url)
Visit ==
    /\ InCall("check")
    /\ ~TopPruned
    /\ callLog' = callLog \cup {Call(Top.url, Top.depth)}
    /\ visited_urls' = visited_urls \cup {Top.url}
    /\ stack' = [stack EXCEPT ![Len(stack)].pc = "get"]
    /\ UNCHANGED <<cfg, reload, pc, exc, cache, cache0, cacheWrites, fetchRet, base_url,
                   exclude_urls, driver, initCount, quitCount, seedIdx,
                   documents, loadRet, polls, lastCheck, navLog>>
    /\ UNCHANGED feedbackVars
    /\ UNCHANGED ingestVars

\* Variant: every page is rendered in a browser session of its own.
Get_NewSession ==
    /\ pc = "crawl" /\ stack # <<>> /\ stack[Len(stack)].pc = "get"
    /\ initCount' = initCount + 1
    /\ navLog' = Append(navLog, [url |-> stack[Len(stack)].url,
                                 depth |-> stack[Len(stack)].depth, seed |-> seedIdx])
    /\ stack' = [stack EXCEPT ![Len(stack)].pc = "wait2"]
    /\ polls' = 0
    /\ UNCHANGED <<cfg, reload, pc, exc, cache, cache0, cacheWrites, fetchRet, base_url,
                   exclude_urls, visited_urls, driver, quitCount,
                   seedIdx, documents, loadRet, lastCheck, callLog>>
    /\ UNCHANGED feedbackVars
    /\ UNCHANGED ingestVars

\* self._driver.get(url)
Get ==
    /\ InCall("get")
    /\ navLog' = Append(navLog, Call(Top.url, Top.depth))
    /\ stack' = [stack EXCEPT ![Len(stack)].pc = "wait2"]
    /\ polls' = 0
    /\ UNCHANGED <<cfg, reload, pc, exc, cache, cache0, cacheWrites, fetchRet, base_url,
                   exclude_urls, visited_urls, driver, initCount, quitCount,
                   seedIdx, documents, loadRet, lastCheck, callLog>>
    /\ UNCHANGED feedbackVars
    /\ UNCHANGED ingestVars

\* self._driver.get(url) raises (the navigation fails)
GetFails ==
    /\ InCall("get")
    /\ Raise("WebDriverException")
    /\ UNCHANGED <<cfg, reload, cache, cache0, cacheWrites, fetchRet, base_url, exclude_urls,
                   visited_urls, driver, initCount, quitCount, seedIdx,
                   documents, loadRet, polls, lastCheck, navLog, callLog>>
    /\ UNCHANGED feedbackVars
    /\ UNCHANGED ingestVars

\* set(self._normalize_url(a["href"]) for a in soup.find_all("a", href=True))
Links(hrefs) == { normalize_url(base_url, hrefs[i]) : i \in 1..Len(hrefs) }

\* lines 112-117: the page is read, its Document and its links are built
Extract ==
    /\ InCall("extract")
    /\ LET page == Render(cfg.site, Top.url)
       IN  stack' = [stack EXCEPT
                        ![Len(stack)].documents = << Document(page.text, Top.url) >>,
                        ![Len(stack)].links = Links(page.hrefs),
                        ![Len(stack)].pc = "loop"]
    /\ UNCHANGED <<cfg, reload, pc, exc, cache, cache0, cacheWrites, fetchRet, base_url,
                   exclude_urls, visited_urls, driver, initCount, quitCount,
                   seedIdx, documents, loadRet, polls, lastCheck, navLog, callLog>>
    /\ UNCHANGED feedbackVars
    /\ UNCHANGED ingestVars

\* for link in links (a set: any order): if link: the recursive call
Recurse ==
    /\ InCall("loop")
    /\ \E link \in Top.links :
        /\ link # <<>>
        /\ stack' = Append([stack EXCEPT ![Len(stack)].links = @ \ {link}],
                           Frame(link, Top.depth + 1))
    /\ polls' = 0
    /\ UNCHANGED <<cfg, reload, pc, exc, cache, cache0, cacheWrites, fetchRet, base_url,
                   exclude_urls, visited_urls, driver, initCount, quitCount,
                   seedIdx, documents, loadRet, lastCheck, navLog, callLog>>
    /\ UNCHANGED feedbackVars
    /\ UNCHANGED ingestVars

\* for link in links: the empty link is skipped
SkipEmptyLink ==
    /\ InCall("loop")
    /\ <<>> \in Top.links
    /\ stack' = [stack EXCEPT ![Len(stack)].links = @ \ {<<>>}]
    /\ UNCHANGED <<cfg, reload, pc, exc, cache, cache0, cacheWrites, fetchRet, base_url,
                   exclude_urls, visited_urls, driver, initCount, quitCount,
                   seedIdx, documents, loadRet, polls, lastCheck, navLog, callLog>>
    /\ UNCHANGED feedbackVars
    /\ UNCHANGED ingestVars

\* the for-loop is over: return documents
Finish ==
    /\ InCall("loop")
    /\ Top.links = {}
    /\ Return(Top.documents)
    /\ UNCHANGED <<cfg, reload, pc, exc, cache, cache0, cacheWrites, fetchRet, base_url,
                   exclude_urls, visited_urls, driver, initCount, quitCount,
                   loadRet, polls, lastCheck, navLog, callLog>>
    /\ UNCHANGED feedbackVars
    /\ UNCHANGED ingestVars

(***************************************************************************)
(* The splitter and DocumentProcessor.process_documents_to_vectorstore     *)
(***************************************************************************)
Event(chunk, what) == <<chunk, what>>

\* documents = text_splitter.split_documents(documents), then the call of
\* process_documents_to_vectorstore: the chunks are numbered in list order
SplitAndIngest ==
    /\ pc = "split"
    /\ \E n \in 0..MaxChunks :
        /\ (fetchRet.value = <<>>) => (n = 0)
        /\ chunks' = [i \in 1..n |-> i]
    /\ max_retries' \in 0..MaxRetriesArg
    /\ chunkIdx' = 1
    /\ attempt' = 0
    /\ pc' = "ingest"
    /\ UNCHANGED <<cfg, exc, cache, cache0, cacheWrites, fetchRet, ingestLog>>
    /\ UNCHANGED feedbackVars
    /\ UNCHANGED loaderVars

InChunk == pc = "ingest" /\ chunkIdx <= Len(chunks)

\* Variant: no break after a success, the inner loop goes on.
EmbedOk_NoBreak ==
    /\ pc = "ingest" /\ chunkIdx <= Len(chunks)
    /\ attempt < max_retries
    /\ ingestLog' = ingestLog \o << <<chunkIdx, "ok">>, <<chunkIdx, "report_ok">> >>
    /\ attempt' = attempt + 1
    /\ UNCHANGED <<cfg, pc, exc, cache, cache0, cacheWrites, fetchRet, chunks, max_retries,
                   chunkIdx>>
    /\ UNCHANGED feedbackVars
    /\ UNCHANGED loaderVars

\* Chroma.from_documents succeeds: the success is printed, break
EmbedOk ==
    /\ InChunk
    /\ attempt < max_retries
    /\ ingestLog' = ingestLog \o << Event(chunkIdx, "ok"), Event(chunkIdx, "report_ok") >>
    /\ chunkIdx' = chunkIdx + 1
    /\ attempt' = 0
    /\ UNCHANGED <<cfg, pc, exc, cache, cache0, cacheWrites, fetchRet, chunks, max_retries>>
    /\ UNCHANGED feedbackVars
    /\ UNCHANGED loaderVars

\* Variant: the retry follows at once, without time.sleep(retry_delay).
EmbedFailRetry_NoSleep ==
    /\ pc = "ingest" /\ chunkIdx <= Len(chunks)
    /\ attempt < max_retries
    /\ attempt < max_retries - 1
    /\ ingestLog' = ingestLog \o << <<chunkIdx, "fail">> >>
    /\ attempt' = attempt + 1
    /\ UNCHANGED <<cfg, pc, exc, cache, cache0, cacheWrites, fetchRet, chunks, max_retries,
                   chunkIdx>>
    /\ UNCHANGED feedbackVars
    /\ UNCHANGED loaderVars

\* Chroma.from_documents raises and another attempt is left: sleep, retry
EmbedFailRetry ==
    /\ InChunk
    /\ attempt < max_retries
    /\ attempt < max_retries - 1
    /\ ingestLog' = ingestLog \o << Event(chunkIdx, "fail"), Event(chunkIdx, "sleep") >>
    /\ attempt' = attempt + 1
    /\ UNCHANGED <<cfg, pc, exc, cache, cache0, cacheWrites, fetchRet, chunks, max_retries,
                   chunkIdx>>
    /\ UNCHANGED feedbackVars
    /\ UNCHANGED loaderVars

\* Variant: the last failure is re-raised.
EmbedFailGiveUp_Raise ==
    /\ pc = "ingest" /\ chunkIdx <= Len(chunks)
    /\ attempt < max_retries
    /\ ~(attempt < max_retries - 1)
    /\ ingestLog' = ingestLog \o << <<chunkIdx, "fail">> >>
    /\ pc' = "raised"
    /\ exc' = "Exception"
    /\ UNCHANGED <<cfg, cache, cache0, cacheWrites, fetchRet, chunks, max_retries,
                   chunkIdx, attempt>>
    /\ UNCHANGED feedbackVars
    /\ UNCHANGED loaderVars

\* Chroma.from_documents raises on the last attempt: give up, next chunk
EmbedFailGiveUp ==
    /\ InChunk
    /\ attempt < max_retries
    /\ ~(attempt < max_retries - 1)
    /\ ingestLog' = ingestLog \o << Event(chunkIdx, "fail"), Event(chunkIdx, "gave_up") >>
    /\ chunkIdx' = chunkIdx + 1
    /\ attempt' = 0
    /\ UNCHANGED <<cfg, pc, exc, cache, cache0, cacheWrites, fetchRet, chunks, max_retries>>
    /\ UNCHANGED feedbackVars
    /\ UNCHANGED loaderVars

\* range(max_retries) is empty: the inner loop has no iteration
NoAttempt ==
    /\ InChunk
    /\ ~(attempt < max_retries)
    /\ chunkIdx' = chunkIdx + 1
    /\ attempt' = 0
    /\ UNCHANGED <<cfg, pc, exc, cache, cache0, cacheWrites, fetchRet, chunks, max_retries,
                   ingestLog>>
    /\ UNCHANGED feedbackVars
    /\ UNCHANGED loaderVars

\* the outer loop is over: the method returns
IngestReturn ==
    /\ pc = "ingest"
    /\ chunkIdx > Len(chunks)
    /\ pc' = "done"
    /\ UNCHANGED <<cfg, exc, cache, cache0, cacheWrites, fetchRet>>
    /\ UNCHANGED feedbackVars
    /\ UNCHANGED loaderVars
    /\ UNCHANGED ingestVars

(***************************************************************************)
(* SQLiteHandler (database_handler.py): the bot's feedback store.  The     *)
(* calls are awaited one after the other; each runs to its commit.         *)
(***************************************************************************)
pipelineVars == <<cfg, pc, exc, cache, cache0, cacheWrites, fetchRet, loaderVars,
                  ingestVars>>

\* INSERT INTO feedback (message_id, response): both counts DEFAULT 0
Row(message_id) ==
    [message_id |-> message_id, useful_count |-> 0, not_useful_count |-> 0]

\* SELECT ... FROM feedback WHERE message_id = ?: the ids of the matching rows
RowsOf(message_id) ==
    { i \in 1..Len(feedback) : feedback[i].message_id = message_id }

\* fetchone() on that cursor: the table is scanned in rowid order, the first
\* matching row is the one with the least id
FirstRow(message_id) ==
    CHOOSE i \in RowsOf(message_id) : \A j \in RowsOf(message_id) : i <= j

\* SELECT feedback FROM user_feedback WHERE feedback_id = ? AND user_id = ?,
\* fetchone(): the stored vote, "none" for no row
UserFeedback(feedback_id, user_id) ==
    LET rows == { r \in user_feedback :
                    r.feedback_id = feedback_id /\ r.user_id = user_id }
    IN  IF rows = {} THEN "none" ELSE (CHOOSE r \in rows : TRUE).feedback

\* Variant: the previous vote is left in the counts.
Counts_NoRemoval(useful_count, not_useful_count, old, fb) ==
    [useful_count     |-> IF fb = "like" THEN useful_count + 1 ELSE useful_count,
     not_useful_count |-> IF fb = "like" THEN not_useful_count
                                         ELSE not_useful_count + 1]

\* lines 80-93: the previous vote is taken out of its count, the new one added
Counts(useful_count, not_useful_count, old, fb) ==
    LET u == IF old # "none" /\ old = "like" THEN useful_count - 1 ELSE useful_count
        n == IF old # "none" /\ old # "like" THEN not_useful_count - 1
                                              ELSE not_useful_count
    IN  [useful_count     |-> IF fb = "like" THEN u + 1 ELSE u,
         not_useful_count |-> IF fb = "like" THEN n ELSE n + 1]

store_response(message_id) ==
    /\ Len(feedback) < MaxResponses
    /\ feedback' = Append(feedback, Row(message_id))
    /\ lastCall' = NoCall
    /\ UNCHANGED <<user_feedback, latest>>
    /\ UNCHANGED pipelineVars

update_feedback(message_id, user_id, fb) ==
    /\ lastCall' = [made |-> TRUE, message_id |-> message_id, user_id |-> user_id,
                    feedback |-> fb,
                    prev |-> latest[<<message_id, user_id>>],
                    before |-> <<feedback, user_feedback>>]
    /\ IF RowsOf(message_id) = {}
       THEN \* if not feedback_data: return
            UNCHANGED <<feedback, user_feedback, latest>>
       ELSE LET feedback_id == FirstRow(message_id)
                old == UserFeedback(feedback_id, user_id)
                new == Counts(feedback[feedback_id].useful_count,
                              feedback[feedback_id].not_useful_count, old, fb)
            IN  /\ latest' = [latest EXCEPT ![<<message_id, user_id>>] = fb]
                /\ IF old = fb
                   THEN \* No change in feedback
                        UNCHANGED <<feedback, user_feedback>>
                   ELSE /\ user_feedback' =
                             { r \in user_feedback :
                                 ~(r.feedback_id = feedback_id /\ r.user_id = user_id) }
                             \cup {[feedback_id |-> feedback_id, user_id |-> user_id,
                                    feedback |-> fb]}
                        /\ feedback' =
                             [feedback EXCEPT
                                ![feedback_id].useful_count = new.useful_count,
                                ![feedback_id].not_useful_count = new.not_useful_count]
    /\ UNCHANGED pipelineVars

StoreResponse == \E message_id \in MessageIds : store_response(message_id)

UpdateFeedback ==
    \E message_id \in MessageIds, user_id \in UserIds, fb \in Feedbacks :
        update_feedback(message_id, user_id, fb)

(***************************************************************************)
(* Specifications                                                          *)
(***************************************************************************)
Next ==
    \/ FetchFromCache
    \/ FetchFromCorruptCache
    \/ FetchDocuments
    \/ SaveDocuments
    \/ LoadStart
    \/ InitDriverFails
    \/ NextSeed
    \/ LoadReturn
    \/ LoadAgain
    \/ PollReady
    \/ PollBlocked
    \/ WaitTimeout
    \/ Prune
    \/ Visit
    \/ Get
    \/ GetFails
    \/ Extract
    \/ Recurse
    \/ SkipEmptyLink
    \/ Finish
    \/ SplitAndIngest
    \/ EmbedOk
    \/ EmbedFailRetry
    \/ EmbedFailGiveUp
    \/ NoAttempt
    \/ IngestReturn

Spec == Init /\ [][Next]_vars

\* every step of the program is a step of one sequential thread that is not
\* stopped from outside: some enabled step is eventually taken
FairSpec == Spec /\ WF_vars(Next)

\* the bot (main.py): initialize() has created the two empty tables; the
\* crawl pipeline is a separate program and does not run
FeedbackInit == Init /\ cfg \in NoCheckConfigs /\ cache = NoFile

FeedbackNext == StoreResponse \/ UpdateFeedback

FeedbackSpec == FeedbackInit /\ [][FeedbackNext]_vars

(***************************************************************************)
(* Observations used by the properties                                     *)
(***************************************************************************)
NavUrls == { navLog[i].url : i \in 1..Len(navLog) }

Sources(docs) == { docs[i].metadata.source : i \in 1..Len(docs) }

\* number of Documents of docs whose source is url
Count(docs, url) ==
    Cardinality({ i \in 1..Len(docs) : docs[i].metadata.source = url })

RECURSIVE FrameDocs(_)
\* the Documents held by the first n activation records, outermost first
FrameDocs(n) ==
    IF n = 0 THEN <<>> ELSE FrameDocs(n - 1) \o stack[n].documents

\* every Document produced so far by the load() call, in production order
Produced ==
    IF loadRet.returned THEN loadRet.value
    ELSE documents \o FrameDocs(Len(stack))

\* what the load() call that ran last has returned
CurrentRet == IF reload.started THEN reload.ret ELSE loadRet

LoadExited == CurrentRet.returned \/ pc = "raised"

X == Url(<<"/", "x">>)
Y == Url(<<"/", "y">>)
Z == Url(<<"/", "z">>)

Min(a, b) == IF a < b THEN a ELSE b

(***************************************************************************)
(* Properties                                                              *)
(***************************************************************************)

\* C1: on every site of the model (cycles and self-links included) and for
\* every max_depth, a load() that has started ends, by returning or by an
\* exception, as long as every readiness wait resolves or times out; and on
\* the cycle x -> y -> x with max_depth = 5 the returned list holds exactly
\* one Document for x and exactly one for y.
C1_TerminatesOnCycles ==
    /\ (pc = "load") ~> LoadExited
    /\ [](  (loadRet.returned /\ cfg \in CycleConfigs /\ cfg.max_depth = 5)
         => (/\ Count(loadRet.value, X) = 1
             /\ Count(loadRet.value, Y) = 1
             /\ Len(loadRet.value) = 2) )

\* the crawl of the cycle with max_depth = 5 has returned, and the link back
\* from y to x was followed (a call on x at depth 2) and pruned
C1_Witness ==
    /\ loadRet.returned
    /\ cfg \in CycleConfigs
    /\ cfg.max_depth = 5
    /\ CallOf(X, 2, 1) \in callLog
    /\ CallOf(Y, 2, 1) \in callLog

\* C2: within one load() call no URL is navigated to twice and no two
\* Documents have the same source; a URL that the traversals of several seeds
\* reach within max_depth is navigated to during the earliest of them.
C2_AtMostOncePerUrl ==
    /\ \A i, j \in 1..Len(navLog) : navLog[i].url = navLog[j].url => i = j
    /\ \A i, j \in 1..Len(Produced) :
          Produced[i].metadata.source = Produced[j].metadata.source => i = j
    /\ \A i \in 1..Len(navLog) : \A c \in callLog :
          (c.url = navLog[i].url /\ c.depth <= cfg.max_depth)
              => navLog[i].seed <= c.seed

\* both seeds of the shared site reached z; it was rendered for the first one
C2_Witness ==
    /\ loadRet.returned
    /\ cfg \in SharedConfigs
    /\ CallOf(Z, 1, 1) \in callLog
    /\ CallOf(Z, 1, 2) \in callLog
    /\ Count(loadRet.value, Z) = 1

ChainLength == Cardinality(DOMAIN ChainSite)

\* C3: no page is navigated to at a depth above max_depth, and the crawl of
\* the linear chain of 5 pages returns exactly min(5, max_depth + 1)
\* Documents (3 of them for max_depth = 2).
C3_DepthBound ==
    /\ \A i \in 1..Len(navLog) : navLog[i].depth <= cfg.max_depth
    /\ (loadRet.returned /\ cfg \in ChainConfigs)
          => Len(loadRet.value) = Min(ChainLength, cfg.max_depth + 1)

\* the chain was crawled with max_depth = 2: p3 was called at depth 3 and
\* pruned, and 3 Documents were returned
C3_Witness ==
    /\ loadRet.returned
    /\ cfg \in ChainConfigs
    /\ cfg.max_depth = 2
    /\ Len(loadRet.value) = 3
    /\ CallOf(Url(<<"/", "p3">>), 3, 1) \in callLog

\* C4 (as claimed): whenever a load() that opened a browser session has
\* exited, by returning or by an exception, the session has been quit exactly
\* once.
C4_SessionClosedOnEveryExit ==
    (initCount >= 1 /\ LoadExited) => quitCount = initCount

\* C5: a readiness wait whose timeout has elapsed can only end the program
\* with TimeoutException; after that, load() and
\* fetch_and_process_documents() have returned nothing, save_documents was
\* never called and no cache artifact exists.
C5_TimeoutIsFatal ==
    /\ [][ (Waiting /\ polls = MaxPolls)
             => (pc' = "raised" /\ exc' = "TimeoutException") ]_vars
    /\ [](  exc = "TimeoutException"
         => (/\ pc = "raised"
             /\ ~CurrentRet.returned
             /\ ~fetchRet.returned
             /\ cacheWrites = 0
             /\ cache.kind = "absent") )

\* a page was rendered and a later wait timed out
C5_Witness ==
    /\ exc = "TimeoutException"
    /\ Len(navLog) >= 2
    /\ cache.kind = "absent"

\* C6 (as claimed): every evaluation of the default readiness predicate
\* returns True exactly when the loading indicator is present or the page
\* source contains the bot-challenge text.
C6_NotReadyWhileEitherHolds ==
    (lastCheck.made /\ lastCheck.kind = "default")
        => (lastCheck.result <=> (lastCheck.loading \/ lastCheck.ddos))

ExcludedByConfig(url) ==
    \E i \in 1..Len(cfg.exclude_urls) : StartsWith(url, RStrip(cfg.exclude_urls[i]))

\* C7: every URL navigated to or in the visited set starts with the stripped
\* base URL and with no stripped exclusion entry; with base
\* https://example.com and exclusion https://example.com/admin a returned
\* crawl has rendered /guide and has not rendered /admin/users.
C7_ScopeAndExclusion ==
    /\ \A u \in visited_urls \cup NavUrls :
          /\ StartsWith(u, RStrip(cfg.base_url))
          /\ ~ExcludedByConfig(u)
    /\ (loadRet.returned /\ cfg \in ScopeConfigs)
          => /\ Url(<<"/", "guide">>) \in NavUrls
             /\ Url(<<"/", "admin", "/", "users">>) \notin NavUrls

\* the scope crawl returned after calls on the excluded and the off-site link
C7_Witness ==
    /\ loadRet.returned
    /\ cfg \in ScopeConfigs
    /\ CallOf(Url(<<"/", "admin", "/", "users">>), 1, 1) \in callLog
    /\ CallOf(<<"https:", "/", "/", "other.org", "/", "x">>, 1, 1) \in callLog
    /\ CallOf(Url(<<"/", "admin">>), 2, 1) \in callLog
    /\ Url(<<"/", "guide">>) \in visited_urls

\* C8 (as claimed): every URL in the visited set is trailing-slash-stripped,
\* and no page is rendered under two URLs that differ only by trailing
\* slashes.
C8_VisitedIsNormalized ==
    /\ \A u \in visited_urls : u = RStrip(u)
    /\ \A u, v \in NavUrls : RStrip(u) = RStrip(v) => u = v

\* C9: when the cache artifact existed at the call, no browser session is
\* created, no page is rendered, nothing is marked visited and the artifact
\* is left as it was; when it parses, what is returned is its content.
C9_CacheSkipsCrawl ==
    (cache0.kind # "absent")
        => /\ initCount = 0
           /\ navLog = <<>>
           /\ visited_urls = {}
           /\ stack = <<>>
           /\ cacheWrites = 0
           /\ cache = cache0
           /\ fetchRet.returned
                => (cache0.kind = "json" /\ fetchRet.value = Parse(cache0.dicts))
           /\ (cache0.kind = "json" /\ pc # "main") => fetchRet.returned

\* the documents of an existing artifact were returned and ingested
C9_Witness ==
    /\ cache0.kind = "json"
    /\ fetchRet.returned
    /\ fetchRet.value = OldDocs
    /\ pc = "done"

Events(chunk, what) ==
    Cardinality({ i \in 1..Len(ingestLog) : ingestLog[i] = Event(chunk, what) })

\* the chunk failed on every one of its max_retries attempts
Exhausted(chunk) ==
    /\ max_retries >= 1
    /\ Events(chunk, "fail") = max_retries

\* C10: once ingestion has started the program never ends with an exception;
\* when it has returned, every chunk after a chunk that failed on all its
\* max_retries attempts was still attempted, and every chunk with a
\* successful attempt was reported as processed.
C10_GiveUpAndContinue ==
    /\ chunkIdx >= 1 => (pc \in {"ingest", "done"} /\ exc = "none")
    /\ pc = "done" =>
          \A c \in 1..Len(chunks) :
              /\ Exhausted(c) =>
                    \A d \in (c + 1)..Len(chunks) :
                        Events(d, "ok") + Events(d, "fail") >= 1
              /\ Events(c, "ok") = 1 <=> Events(c, "report_ok") = 1

\* 3 chunks, max_retries = 2, chunk 2 failed twice: chunks 1 and 3 succeeded
C10_Witness ==
    /\ pc = "done"
    /\ Len(chunks) = 3
    /\ max_retries = 2
    /\ Events(2, "fail") = 2
    /\ Events(2, "gave_up") = 1
    /\ Events(1, "report_ok") = 1
    /\ Events(3, "report_ok") = 1

\* the event is an embed/upsert call for the chunk
IsAttempt(e, chunk) == e = Event(chunk, "ok") \/ e = Event(chunk, "fail")

\* number of embed/upsert calls made for the chunk
Attempts(chunk) == Events(chunk, "ok") + Events(chunk, "fail")

\* C11: no chunk gets more than max_retries embed/upsert calls; a failed call
\* is followed by a sleep exactly when another call for the chunk follows it,
\* the last of max_retries failed calls is followed by no sleep, and every
\* sleep stands between a failed call and the next call for the same chunk.
C11_BoundedAttemptsAndDelays ==
    /\ \A c \in 1..Len(chunks) : Attempts(c) <= max_retries
    /\ \A i \in 1..Len(ingestLog) :
          LET c == ingestLog[i][1]
              failsSoFar == Cardinality({ j \in 1..i : ingestLog[j] = Event(c, "fail") })
          IN  /\ ingestLog[i] = Event(c, "fail") =>
                    /\ i < Len(ingestLog)
                    /\ (failsSoFar < max_retries) <=> (ingestLog[i + 1] = Event(c, "sleep"))
                    /\ (failsSoFar = max_retries) => (ingestLog[i + 1] = Event(c, "gave_up"))
              /\ ingestLog[i] = Event(c, "sleep") =>
                    /\ i > 1 /\ ingestLog[i - 1] = Event(c, "fail")
                    /\ i < Len(ingestLog) => IsAttempt(ingestLog[i + 1], c)
                    /\ (i = Len(ingestLog)) => (pc = "ingest" /\ chunkIdx = c)

\* with max_retries = 2 a chunk failed, slept once, failed again and was
\* given up without a second sleep
C11_Witness ==
    /\ pc = "done"
    /\ max_retries = 2
    /\ Len(chunks) >= 1
    /\ Events(1, "fail") = 2
    /\ Events(1, "sleep") = 1
    /\ Events(1, "gave_up") = 1

\* C12 (as claimed): when ingestion has returned, every chunk got at least one
\* embed/upsert call and exactly one final report, a success report after a
\* successful call or a give-up report otherwise, for every max_retries >= 0.
C12_EveryChunkAttemptedAndReported ==
    pc = "done" =>
        \A c \in 1..Len(chunks) :
            /\ Attempts(c) >= 1
            /\ Events(c, "report_ok") + Events(c, "gave_up") = 1
            /\ Events(c, "report_ok") = Events(c, "ok")

\* C13: loading what was saved yields the saved list, Document by Document in
\* the same order with the same source and content: for the list this run's
\* crawl saved, and for the list an earlier run saved and this run loaded.
C13_CacheRoundTrip ==
    /\ cacheWrites >= 1 =>
          /\ cache.kind = "json"
          /\ Len(Parse(cache.dicts)) = Len(loadRet.value)
          /\ \A i \in 1..Len(loadRet.value) :
                /\ Parse(cache.dicts)[i].metadata.source = loadRet.value[i].metadata.source
                /\ Parse(cache.dicts)[i].page_content = loadRet.value[i].page_content
          /\ Parse(cache.dicts) = loadRet.value
    /\ (cache0.kind = "json" /\ fetchRet.returned) =>
          \A docs \in OldDocLists :
              cache0 = JsonFile(Dump(docs)) => fetchRet.value = docs

\* the artifact an earlier run saved from two Documents was loaded, and the
\* two Documents came back
C13_Witness ==
    /\ cache0 = JsonFile(Dump(OldDocs \o << Document("OLD2", Url(<<"/", "y">>)) >>))
    /\ fetchRet.returned
    /\ Len(fetchRet.value) = 2
    /\ fetchRet.value[2].page_content = "OLD2"

\* C14: without an artifact the program goes into a crawl, and what
\* fetch_and_process_documents() returns was saved first; with an artifact
\* that does not parse it ends with the load error, returns nothing, creates
\* no session, renders nothing and leaves the file as it was.
C14_MissingVersusCorrupt ==
    /\ (cache0.kind = "absent" /\ pc # "main") =>
          /\ pc = "load" \/ initCount >= 1 \/ exc = "WebDriverException"
          /\ fetchRet.returned =>
                /\ loadRet.returned
                /\ fetchRet.value = loadRet.value
                /\ cacheWrites = 1
                /\ cache = JsonFile(Dump(loadRet.value))
    /\ cache0.kind = "corrupt" =>
          /\ pc \in {"main", "raised"}
          /\ pc = "raised" => exc = "JSONDecodeError"
          /\ ~fetchRet.returned
          /\ initCount = 0
          /\ navLog = <<>>
          /\ cacheWrites = 0
          /\ cache = cache0

\* the corrupt artifact made the program end with the load error
C14_Witness ==
    /\ cache0.kind = "corrupt"
    /\ pc = "raised"
    /\ exc = "JSONDecodeError"
    /\ cache = CorruptFile

\* C15 (as claimed): every non-empty link _normalize_url has produced is a
\* fixed point of _normalize_url.
C15_NormalizeIdempotent ==
    \A i \in 1..Len(stack) : \A link \in stack[i].links :
        link # <<>> => normalize_url(base_url, link) = link

InScope(url) == StartsWith(url, RStrip(cfg.base_url)) /\ ~ExcludedByConfig(url)

\* the non-empty normalized links of the page at url
PageLinks(url) ==
    LET hrefs == Render(cfg.site, url).hrefs
    IN  { normalize_url(RStrip(cfg.base_url), hrefs[i]) : i \in 1..Len(hrefs) } \ {<<>>}

RECURSIVE ReachableWithin(_)
\* the in-scope pages at most k links away from some seed
ReachableWithin(k) ==
    IF k = 0 THEN { u \in { cfg.urls[i] : i \in 1..Len(cfg.urls) } : InScope(u) }
    ELSE LET near == ReachableWithin(k - 1)
         IN  near \cup { l \in UNION { PageLinks(u) : u \in near } : InScope(l) }

\* C16 (as claimed): a load() that returned holds a Document for every
\* in-scope page at most max_depth links away from a seed, whatever order the
\* links were traversed in.
C16_AllReachablePagesReturned ==
    loadRet.returned => ReachableWithin(cfg.max_depth) \subseteq Sources(loadRet.value)

\* position of the first <a href> of the page at url that normalizes to link
DiscoveryIndex(url, link) ==
    LET hrefs == Render(cfg.site, url).hrefs
    IN  CHOOSE i \in 1..Len(hrefs) :
            /\ normalize_url(base_url, hrefs[i]) = link
            /\ \A j \in 1..(i - 1) : normalize_url(base_url, hrefs[j]) # link

\* C17 (as claimed): the link a page is recursing into comes, in the order of
\* the <a href> elements, before every link of the page still to be
\* traversed.
C17_LinkDiscoveryOrder ==
    \A i \in 1..(Len(stack) - 1) : \A link \in stack[i].links \ {<<>>} :
        DiscoveryIndex(stack[i].url, stack[i + 1].url)
            < DiscoveryIndex(stack[i].url, link)

\* position in docs of the Document whose source is url
Pos(docs, url) == CHOOSE i \in 1..Len(docs) : docs[i].metadata.source = url

\* navigation i happened in the call of navigation a, or in a call below it
Inside(a, i) ==
    /\ a < i
    /\ \A k \in (a + 1)..i :
          /\ navLog[k].depth > navLog[a].depth
          /\ navLog[k].seed = navLog[a].seed

\* C18: in the list load() returned, the Document of a page stands before the
\* Documents of the pages rendered inside its recursive call, and the
\* Documents of an earlier seed stand before those of a later seed.
C18_PreOrder ==
    loadRet.returned =>
        /\ \A i \in 1..Len(navLog) : navLog[i].url \in Sources(loadRet.value)
        /\ \A a, i \in 1..Len(navLog) :
              Inside(a, i) =>
                  Pos(loadRet.value, navLog[a].url) < Pos(loadRet.value, navLog[i].url)
        /\ \A i, j \in 1..Len(navLog) :
              navLog[i].seed < navLog[j].seed =>
                  Pos(loadRet.value, navLog[i].url) < Pos(loadRet.value, navLog[j].url)

\* the shared site crawled with max_depth = 1: x, its child z, then seed y
C18_Witness ==
    /\ loadRet.returned
    /\ cfg \in SharedConfigs
    /\ Len(loadRet.value) = 3
    /\ loadRet.value[1].metadata.source = X
    /\ loadRet.value[2].metadata.source = Z
    /\ loadRet.value[3].metadata.source = Y
    /\ navLog[3].seed = 2

\* C19 (as claimed): a call whose URL is pruned returns without raising,
\* navigating or touching the visited set, whatever the readiness predicate
\* reports.
C19_PrunedCallHasNoEffect ==
    [][ (InCall("wait1") /\ TopPruned)
            => /\ pc' # "raised"
               /\ navLog' = navLog
               /\ visited_urls' = visited_urls ]_vars

\* C20: an artifact this program wrote was written once, after load() had
\* returned, and holds the complete list load() returned; as long as the
\* program has not written, the file is as it was at the start.
C20_CacheHoldsCompleteCrawl ==
    /\ cacheWrites >= 1 =>
          /\ cacheWrites = 1
          /\ loadRet.returned
          /\ pc # "raised"
          /\ cache = JsonFile(Dump(loadRet.value))
          /\ Sources(loadRet.value) = NavUrls
    /\ cacheWrites = 0 => cache = cache0

\* the complete result of a crawl of several pages was saved
C20_Witness ==
    /\ cacheWrites = 1
    /\ cache0.kind = "absent"
    /\ cache.kind = "json"
    /\ Len(cache.dicts) >= 3
    /\ Len(cache.dicts) = Len(navLog)

\* C21 (as claimed): every load() call starts with an empty visited set; a
\* second load() on the same instance renders the seeds again and returns
\* the same Documents as the first call (the site has not changed).
C21_EveryLoadStartsFresh ==
    /\ (pc = "crawl" /\ seedIdx = 1 /\ stack = <<>>) => visited_urls = {}
    /\ (reload.started /\ reload.ret.returned) =>
          /\ reload.ret.value = loadRet.value
          /\ Len(navLog) = 2 * reload.navs

\* C22: by the time load() is at its loop over the seeds it has created
\* exactly one browser session, and that number does not change up to the
\* return of the call, whatever the number of seeds and pages; no page is
\* rendered before the session of its load() call exists.
SessionsDue == IF reload.started THEN 2 ELSE 1

C22_OneSessionPerLoad ==
    /\ pc \in {"crawl", "save", "reloaded"} => initCount = SessionsDue
    /\ pc = "crawl" => driver = "open"
    /\ navLog # <<>> => initCount >= 1
    /\ (reload.started /\ Len(navLog) > reload.navs) => initCount = 2
    /\ initCount <= SessionsDue

\* two seeds and three rendered pages, one session
C22_Witness ==
    /\ pc = "save"
    /\ Len(cfg.urls) = 2
    /\ Len(navLog) = 3
    /\ initCount = 1

\* C23: the events of the ingestion log are in input order of their chunks
\* (everything logged for a chunk precedes everything logged for a later
\* chunk, and nothing is logged for a chunk the outer loop has not reached),
\* a successful attempt is the last attempt made for its chunk, and no chunk
\* is upserted more than once.
C23_SequentialStopOnSuccess ==
    /\ \A i \in 1..Len(ingestLog), j \in 1..Len(ingestLog) :
          i < j => ingestLog[i][1] <= ingestLog[j][1]
    /\ \A i \in 1..Len(ingestLog) :
          /\ ingestLog[i][1] \in 1..Len(chunks)
          /\ ingestLog[i][1] <= chunkIdx
    /\ \A c \in 1..Len(chunks) :
          /\ Events(c, "ok") <= 1
          /\ \A i \in 1..Len(ingestLog), j \in 1..Len(ingestLog) :
                (i < j /\ ingestLog[i] = Event(c, "ok")) => ~IsAttempt(ingestLog[j], c)

\* chunk 1 failed once and then succeeded with an attempt to spare, chunk 2
\* was attempted after it
C23_Witness ==
    /\ pc = "done"
    /\ max_retries = 2
    /\ Len(chunks) >= 2
    /\ Events(1, "fail") = 1 /\ Events(1, "ok") = 1
    /\ Events(2, "ok") = 1 /\ Events(2, "fail") = 0

\* C24 (as claimed): every URL navigated to is in the visited set at the
\* moment of the navigation and in every later state (the set never loses
\* it); when a load() call has returned, the sources of the returned
\* Documents are exactly the visited set, one Document per visited URL.
C24_VisitedMatchesDocuments ==
    /\ NavUrls \subseteq visited_urls
    /\ pc \in {"save", "reloaded"} =>
          /\ Sources(CurrentRet.value) = visited_urls
          /\ Len(CurrentRet.value) = Cardinality(visited_urls)

\* C25: after any sequence of store_response and update_feedback calls, each
\* stored response's useful_count is the number of users whose latest
\* recorded vote for it is "like" and its not_useful_count the number of
\* users whose latest recorded vote is anything else (user_feedback holds
\* exactly those latest votes); a call that repeats the user's current vote
\* and a call for a message_id with no stored response leave both tables as
\* they were.  A message_id names the response its lookup returns, the
\* oldest row with that message_id; no vote is recorded for a later row
\* with the same message_id.
VoteFor(feedback_id, user_id) ==
    LET message_id == feedback[feedback_id].message_id
    IN  IF feedback_id = FirstRow(message_id)
        THEN latest[<<message_id, user_id>>]
        ELSE "none"

WasStored(call) ==
    \E i \in 1..Len(call.before[1]) : call.before[1][i].message_id = call.message_id

C25_CountsMatchLatestVotes ==
    /\ \A i \in 1..Len(feedback) :
          /\ feedback[i].useful_count =
                Cardinality({ u \in UserIds : VoteFor(i, u) = "like" })
          /\ feedback[i].not_useful_count =
                Cardinality({ u \in UserIds : VoteFor(i, u) \notin {"none", "like"} })
          /\ \A u \in UserIds : UserFeedback(i, u) = VoteFor(i, u)
    /\ \A r \in user_feedback : r.feedback_id \in 1..Len(feedback)
    /\ (lastCall.made /\ WasStored(lastCall) /\ lastCall.prev = lastCall.feedback)
          => <<feedback, user_feedback>> = lastCall.before
    /\ (lastCall.made /\ ~WasStored(lastCall))
          => <<feedback, user_feedback>> = lastCall.before

\* two users liked a response and one of them has just changed the vote
C25_Witness ==
    /\ lastCall.made
    /\ lastCall.prev = "like"
    /\ lastCall.feedback = "meh"
    /\ \E i \in 1..Len(feedback) :
          /\ feedback[i].message_id = lastCall.message_id
          /\ feedback[i].useful_count = 1
          /\ feedback[i].not_useful_count = 1

====
